---- MODULE Spec2Model ----
(***************************************************************************)
(* The ALN intent protocol (src/src/protocol/ALNSpec.js): the primitive    *)
(* validator, the shape validator, the intent validators, the envelope     *)
(* validator and the four envelope constructors; and the planning kernel   *)
(* (src/src/core/ALNKernel.js): its constructor and reason.  One state     *)
(* machine whose steps are single calls of the exported functions; the     *)
(* state between calls is the intent registry and the kernel instances     *)
(* constructed so far.                                                     *)
(*                                                                         *)
(* JavaScript values are records [t, s, n]: t is the runtime class, s the  *)
(* text of a string (or the variety of a number or object), n the value    *)
(* of a finite number or the length of an array.  An object that is        *)
(* inspected field by field is a record [v, own]: v its value record, own  *)
(* its own enumerable properties in insertion order.  An error message of  *)
(* the protocol is a sequence of text fragments, so that joining messages  *)
(* is a real concatenation; the kernel works on strings.                   *)
(***************************************************************************)
EXTENDS Integers, Sequences, FiniteSets, TLC

VARIABLES pc, call, ret, intents, kernels

vars == <<pc, call, ret, intents, kernels>>

---------------------------------------------------------------------------
(* Bounds of the model *)

\* Date.now() returns a value of 0..MaxClock
MaxClock == 1

\* validateShape is exercised on shapes over the first MaxFields field names
MaxFields == 2

\* the jurisdictions and providerPolicies of a call have 0..MaxItems elements
MaxItems == 2

---------------------------------------------------------------------------
(* JavaScript values *)

Undefined == [t |-> "undefined", s |-> "", n |-> 0]
Null == [t |-> "null", s |-> "", n |-> 0]
Str(text) == [t |-> "string", s |-> text, n |-> 0]
Num(k) == [t |-> "number", s |-> "finite", n |-> k]
NaN == [t |-> "number", s |-> "NaN", n |-> 0]
Infinity == [t |-> "number", s |-> "Infinity", n |-> 0]
Bool(b) == [t |-> "boolean", s |-> IF b THEN "true" ELSE "false", n |-> 0]
Arr == [t |-> "array", s |-> "", n |-> 0]
Fn == [t |-> "function", s |-> "", n |-> 0]
Sym == [t |-> "symbol", s |-> "Symbol()", n |-> 0]
\* an ordinary object, prototype Object.prototype
Obj == [t |-> "object", s |-> "plain", n |-> 0]
\* Object.create(null): no toString, no valueOf
NullProtoObj == [t |-> "object", s |-> "nullproto", n |-> 0]
\* an object whose prototype is an object that carries fields of its own
DerivedObj == [t |-> "object", s |-> "derived", n |-> 0]
\* the marker of a property that is not there (not a JavaScript value)
Absent == [t |-> "absent", s |-> "", n |-> 0]

\* typeof value
TypeOf(value) ==
  IF value.t \in {"null", "array", "object"} THEN "object"
  ELSE IF value.t = "absent" THEN "undefined"
  ELSE value.t

\* Array.isArray(value)
IsArray(value) == value.t = "array"

\* Number.isFinite(value)
NumberIsFinite(value) == value.t = "number" /\ value.s = "finite"

\* the truthiness test of `meta ? ... : ...` and `!intent`
Truthy(value) ==
  CASE value.t \in {"undefined", "null", "absent"} -> FALSE
    [] value.t = "string" -> value.s # ""
    [] value.t = "number" -> value.s = "Infinity" \/ (value.s = "finite" /\ value.n # 0)
    [] value.t = "boolean" -> value.s = "true"
    [] OTHER -> TRUE

\* String(value) raises a TypeError: the value has no toString and no valueOf
StringRaises(value) == value.t = "object" /\ value.s = "nullproto"

\* String(value), where it does not raise
StringOf(value) ==
  CASE value.t = "string" -> value.s
    [] value.t = "number" -> IF value.s = "finite" THEN ToString(value.n) ELSE value.s
    [] value.t = "boolean" -> value.s
    [] value.t = "undefined" -> "undefined"
    [] value.t = "null" -> "null"
    [] value.t = "array" -> ""
    [] value.t = "function" -> "function () {}"
    [] value.t = "symbol" -> value.s
    [] OTHER -> "[object Object]"

---------------------------------------------------------------------------
(* Objects and property access *)

\* the properties every ordinary object inherits (three of them)
ObjectPrototype ==
  << [k |-> "constructor", v |-> Fn],
     [k |-> "toString", v |-> Fn],
     [k |-> "__proto__", v |-> Obj] >>

\* the field names of the shapes validateShape is exercised on
FieldNames == <<"name", "description", "schema", "tags">>

\* the prototype of a DerivedObj: one field, named like the first shape field
DerivedPrototype == << [k |-> FieldNames[1], v |-> Str("inherited")] >>

\* the prototype chain of an object, flattened, nearest first
Inherited(value) ==
  CASE value.t = "object" /\ value.s = "plain" -> ObjectPrototype
    [] value.t = "object" /\ value.s = "derived" -> DerivedPrototype \o ObjectPrototype
    [] OTHER -> << >>

\* the first index of key k in a sequence of properties, 0 when none
IndexOf(props, key) ==
  IF \E i \in 1..Len(props) : props[i].k = key
  THEN CHOOSE i \in 1..Len(props) :
         props[i].k = key /\ \A j \in 1..(i - 1) : props[j].k # key
  ELSE 0

\* Object.keys that lists the inherited properties as well
ObjectKeys_WithInherited(object) ==
  [i \in 1..(Len(object.own) + Len(Inherited(object.v))) |->
     (object.own \o Inherited(object.v))[i].k]

\* Object.keys(object)
ObjectKeys(object) == [i \in 1..Len(object.own) |-> object.own[i].k]

\* key in object: own or inherited
HasProperty(object, key) ==
  IndexOf(object.own, key) # 0 \/ IndexOf(Inherited(object.v), key) # 0

\* object[key]
Get(object, key) ==
  IF IndexOf(object.own, key) # 0 THEN object.own[IndexOf(object.own, key)].v
  ELSE IF IndexOf(Inherited(object.v), key) # 0
       THEN Inherited(object.v)[IndexOf(Inherited(object.v), key)].v
       ELSE Undefined

\* array.join(separator) on a list of messages, each a sequence of fragments
RECURSIVE Join(_, _)
Join(list, separator) ==
  IF Len(list) = 0 THEN << >>
  ELSE IF Len(list) = 1 THEN list[1]
  ELSE list[1] \o <<separator>> \o Join(Tail(list), separator)

---------------------------------------------------------------------------
(* ALNPrimitives, ALNMessageKinds, ALNSpec.intents *)

STRING_ == "aln::string"
NUMBER == "aln::number"
BOOLEAN_ == "aln::boolean"
OBJECT == "aln::object"
ARRAY == "aln::array"
VIRTUAL_OBJECT == "aln::virtual_object"
INTENT == "aln::intent"
PLAN == "aln::plan"
SIGNAL == "aln::signal"

ALNPrimitives ==
  {STRING_, NUMBER, BOOLEAN_, OBJECT, ARRAY, VIRTUAL_OBJECT, INTENT, PLAN, SIGNAL}

INTENT_REQUEST == "aln::intent_request"
INTENT_PLAN == "aln::intent_plan"
EXECUTION_RESULT == "aln::execution_result"
ERROR == "aln::error"
HEARTBEAT == "aln::heartbeat"
SPEC_QUERY == "aln::spec_query"
SPEC_RESPONSE == "aln::spec_response"

\* Object.values(ALNMessageKinds), in declaration order
ALNMessageKinds ==
  <<INTENT_REQUEST, INTENT_PLAN, EXECUTION_RESULT, ERROR, HEARTBEAT, SPEC_QUERY,
    SPEC_RESPONSE>>

\* ALNSpec.intents: the own properties of the registry object, in order
ALNSpecIntents ==
  << [k |-> "aln::define_virtual_object",
      description |-> "Define or update a virtual-object in the global registry.",
      inputShape |-> << [k |-> "name", v |-> STRING_],
                        [k |-> "description", v |-> STRING_],
                        [k |-> "schema", v |-> OBJECT],
                        [k |-> "tags", v |-> ARRAY] >>,
      outputShape |-> << [k |-> "id", v |-> STRING_],
                         [k |-> "name", v |-> STRING_] >>],
     [k |-> "aln::plan_repository",
      description |->
        "Create a repository plan including files, workflows, and policies.",
      inputShape |-> << [k |-> "description", v |-> STRING_],
                        [k |-> "constraints", v |-> OBJECT] >>,
      outputShape |-> << [k |-> "planId", v |-> STRING_],
                         [k |-> "files", v |-> ARRAY],
                         [k |-> "workflows", v |-> ARRAY] >>],
     [k |-> "aln::interop_python",
      description |->
        "Request a Python operation compatible with ML systems and notebooks.",
      inputShape |-> << [k |-> "sessionId", v |-> STRING_],
                        [k |-> "code", v |-> STRING_],
                        [k |-> "ioContract", v |-> OBJECT] >>,
      outputShape |-> << [k |-> "sessionId", v |-> STRING_],
                         [k |-> "stdout", v |-> STRING_],
                         [k |-> "stderr", v |-> STRING_] >>] >>

\* ALNSpec.intents[intentName] for a string intentName: the registry object is an
\* ordinary object, so a name it does not hold resolves through Object.prototype
LookupIntent(registry, intentName) ==
  IF IndexOf(registry, intentName) # 0
    THEN [truthy |-> TRUE,
          inputShape |-> [defined |-> TRUE,
                          entries |-> registry[IndexOf(registry, intentName)].inputShape],
          outputShape |-> [defined |-> TRUE,
                           entries |-> registry[IndexOf(registry, intentName)].outputShape]]
  ELSE [truthy |-> IF IndexOf(ObjectPrototype, intentName) # 0
                   THEN Truthy(ObjectPrototype[IndexOf(ObjectPrototype, intentName)].v)
                   ELSE FALSE,
        inputShape |-> [defined |-> FALSE, entries |-> << >>],
        outputShape |-> [defined |-> FALSE, entries |-> << >>]]

---------------------------------------------------------------------------
(* primitiveLabel, validatePrimitive *)

primitiveLabel(primitive) ==
  CASE primitive = STRING_ -> "string"
    [] primitive = NUMBER -> "number"
    [] primitive = BOOLEAN_ -> "boolean"
    [] primitive = OBJECT -> "object"
    [] primitive = ARRAY -> "array"
    [] primitive = VIRTUAL_OBJECT -> "virtual_object"
    [] primitive = INTENT -> "intent"
    [] primitive = PLAN -> "plan"
    [] primitive = SIGNAL -> "signal"
    [] OTHER -> primitive

\* the result of a validator: exc is "" when it returns, else the error raised
Valid == [exc |-> "", valid |-> TRUE, errors |-> << >>]
Invalid(errors) == [exc |-> "", valid |-> FALSE, errors |-> errors]
Raised(kind) == [exc |-> kind, valid |-> FALSE, errors |-> << >>]

\* PrimitiveOk without the Array.isArray test of the object case
PrimitiveOk_ArrayAsObject(value, primitive) ==
  CASE primitive = STRING_ -> TypeOf(value) = "string"
    [] primitive = NUMBER -> TypeOf(value) = "number" /\ NumberIsFinite(value)
    [] primitive = BOOLEAN_ -> TypeOf(value) = "boolean"
    [] primitive = OBJECT -> TypeOf(value) = "object" /\ value.t # "null"
    [] primitive = ARRAY -> IsArray(value)
    [] primitive \in {VIRTUAL_OBJECT, INTENT, PLAN, SIGNAL} ->
         TypeOf(value) = "object" /\ value.t # "null"
    [] OTHER -> FALSE

\* the test `ok` of each case of validatePrimitive
PrimitiveOk(value, primitive) ==
  CASE primitive = STRING_ -> TypeOf(value) = "string"
    [] primitive = NUMBER -> TypeOf(value) = "number" /\ NumberIsFinite(value)
    [] primitive = BOOLEAN_ -> TypeOf(value) = "boolean"
    [] primitive = OBJECT ->
         TypeOf(value) = "object" /\ value.t # "null" /\ ~IsArray(value)
    [] primitive = ARRAY -> IsArray(value)
    [] primitive \in {VIRTUAL_OBJECT, INTENT, PLAN, SIGNAL} ->
         TypeOf(value) = "object" /\ value.t # "null"
    [] OTHER -> FALSE

\* the message of each failing case of validatePrimitive
PrimitiveError(value, primitive) ==
  CASE primitive = STRING_ ->
         <<"Expected string for ", primitive, ", got ", TypeOf(value)>>
    [] primitive = NUMBER ->
         <<"Expected finite number for ", primitive, ", got ", StringOf(value)>>
    [] primitive = BOOLEAN_ ->
         <<"Expected boolean for ", primitive, ", got ", TypeOf(value)>>
    [] primitive = OBJECT ->
         <<"Expected object for ", primitive, ", got ",
           IF IsArray(value) THEN "array" ELSE TypeOf(value)>>
    [] primitive = ARRAY ->
         <<"Expected array for ", primitive, ", got ", TypeOf(value)>>
    [] primitive \in {VIRTUAL_OBJECT, INTENT, PLAN, SIGNAL} ->
         <<"Expected structured object for ", primitive, ", got ", TypeOf(value)>>
    [] OTHER -> <<"Unknown primitive type: ", primitive>>

\* validatePrimitive(value, primitive); errors holds the one `error` of the result
validatePrimitive(value, primitive) ==
  IF PrimitiveOk(value, primitive) THEN Valid
  ELSE IF primitive = NUMBER /\ StringRaises(value) THEN Raised("TypeError")
  ELSE Invalid(<<PrimitiveError(value, primitive)>>)

---------------------------------------------------------------------------
(* validateShape, validateIntentInput, validateIntentOutput *)

\* typeof payload !== "object" || payload === null || Array.isArray(payload)
NotPlainObject(value) ==
  TypeOf(value) # "object" \/ value.t = "null" \/ IsArray(value)

\* the loop over Object.entries(shape), from entry i on, errors so far given;
\* a validatePrimitive that raises ends the loop and the call
RECURSIVE ShapeFieldErrors(_, _, _, _)
ShapeFieldErrors(payload, entries, i, errors) ==
  IF i > Len(entries) THEN [exc |-> "", errors |-> errors]
  ELSE LET field == entries[i].k
           primitive == entries[i].v
       IN IF ~HasProperty(payload, field)
          THEN ShapeFieldErrors(payload, entries, i + 1,
                 Append(errors, <<"Missing required field \"", field,
                                  "\" (expected ", primitiveLabel(primitive), ")">>))
          ELSE LET result == validatePrimitive(Get(payload, field), primitive)
               IN IF result.exc # "" THEN [exc |-> result.exc, errors |-> errors]
                  ELSE IF ~result.valid
                  THEN ShapeFieldErrors(payload, entries, i + 1,
                         Append(errors, <<"Field \"", field, "\" invalid: ">>
                                          \o result.errors[1]))
                  ELSE ShapeFieldErrors(payload, entries, i + 1, errors)

\* the loop over Object.keys(payload) that reports the keys not in the shape
ShapeExtraErrors(payload, entries) ==
  LET extra == SelectSeq(ObjectKeys(payload), LAMBDA key : IndexOf(entries, key) = 0)
  IN [i \in 1..Len(extra) |->
        <<"Unexpected field \"", extra[i], "\" not defined in shape">>]

\* validateShape(payload, shape, allowExtraKeys); shape.defined is FALSE for the
\* `undefined` that a missing inputShape or outputShape passes in, on which
\* Object.entries raises a TypeError
validateShape(payload, shape, allowExtraKeys) ==
  IF NotPlainObject(payload.v)
  THEN Invalid(<< <<"Payload must be an object, got ",
                    IF IsArray(payload.v) THEN "array" ELSE TypeOf(payload.v)>> >>)
  ELSE IF ~shape.defined THEN Raised("TypeError")
  ELSE LET fields == ShapeFieldErrors(payload, shape.entries, 1, << >>)
       IN IF fields.exc # "" THEN Raised(fields.exc)
          ELSE LET errors == fields.errors \o
                             (IF allowExtraKeys THEN << >>
                              ELSE ShapeExtraErrors(payload, shape.entries))
               IN [exc |-> "", valid |-> Len(errors) = 0, errors |-> errors]

validateIntentInput(registry, intentName, inputPayload, allowExtraKeys) ==
  LET intent == LookupIntent(registry, intentName)
  IN IF ~intent.truthy
     THEN Invalid(<< <<"Unknown intent \"", intentName, "\"">> >>)
     ELSE validateShape(inputPayload, intent.inputShape, allowExtraKeys)

validateIntentOutput(registry, intentName, outputPayload, allowExtraKeys) ==
  LET intent == LookupIntent(registry, intentName)
  IN IF ~intent.truthy
     THEN Invalid(<< <<"Unknown intent \"", intentName, "\"">> >>)
     ELSE validateShape(outputPayload, intent.outputShape, allowExtraKeys)

---------------------------------------------------------------------------
(* validateMessageEnvelope *)

\* A message is a record [v, id, kind, intent, timestamp, payload, meta]: v is
\* the value itself, the other fields its properties (Absent when not there).

IdError == <<"Field \"id\" must be a non-empty string">>
KindError ==
  <<"Field \"kind\" must be one of ">>
    \o Join([i \in 1..Len(ALNMessageKinds) |-> <<ALNMessageKinds[i]>>], ", ")
TimestampError == <<"Field \"timestamp\" must be a finite number in epoch milliseconds">>
PayloadError == <<"Field \"payload\" must be a non-null object">>
MetaError == <<"Field \"meta\", if present, must be a non-null object">>
IntentStringError(kind) ==
  <<"Field \"intent\" must be a non-empty string for kind ", kind>>
UnknownIntentError(intent, kind) ==
  <<"Unknown intent \"", intent, "\" for message kind ", kind>>

IdErrors(message) ==
  IF TypeOf(message.id) # "string" \/ message.id.s = "" THEN <<IdError>> ELSE << >>

KindErrors(message) ==
  IF TypeOf(message.kind) # "string"
     \/ ~\E i \in 1..Len(ALNMessageKinds) : ALNMessageKinds[i] = message.kind.s
  THEN <<KindError>> ELSE << >>

TimestampErrors(message) ==
  IF TypeOf(message.timestamp) # "number" \/ ~NumberIsFinite(message.timestamp)
  THEN <<TimestampError>> ELSE << >>

PayloadErrors(message) ==
  IF TypeOf(message.payload.v) # "object" \/ message.payload.v.t = "null"
  THEN <<PayloadError>> ELSE << >>

MetaErrors(message) ==
  IF message.meta.t # "absent" /\ NotPlainObject(message.meta)
  THEN <<MetaError>> ELSE << >>

\* intentKinds.has(message.kind)
IsIntentKind(kind) ==
  kind.t = "string" /\ kind.s \in {INTENT_REQUEST, INTENT_PLAN, EXECUTION_RESULT}

\* IntentErrors with the second test made independent of the first
IntentErrors_BothTests(registry, message) ==
  IF IsIntentKind(message.kind)
  THEN (IF TypeOf(message.intent) # "string" \/ message.intent.s = ""
        THEN <<IntentStringError(message.kind.s)>> ELSE << >>)
       \o (IF message.intent.t # "string"
              \/ ~LookupIntent(registry, message.intent.s).truthy
           THEN <<UnknownIntentError(StringOf(message.intent), message.kind.s)>>
           ELSE << >>)
  ELSE << >>

IntentErrors(registry, message) ==
  IF IsIntentKind(message.kind)
  THEN IF TypeOf(message.intent) # "string" \/ message.intent.s = ""
       THEN <<IntentStringError(message.kind.s)>>
       ELSE IF ~LookupIntent(registry, message.intent.s).truthy
       THEN <<UnknownIntentError(message.intent.s, message.kind.s)>>
       ELSE << >>
  ELSE << >>

\* validateMessageEnvelope returning at the first rule that fails
validateMessageEnvelope_FirstOnly(registry, message) ==
  IF NotPlainObject(message.v) THEN Invalid(<< <<"Message must be an object">> >>)
  ELSE LET errors == IdErrors(message) \o KindErrors(message)
                     \o TimestampErrors(message) \o PayloadErrors(message)
                     \o MetaErrors(message) \o IntentErrors(registry, message)
       IN [exc |-> "", valid |-> Len(errors) = 0,
           errors |-> IF Len(errors) = 0 THEN errors ELSE <<errors[1]>>]

validateMessageEnvelope(registry, message) ==
  IF NotPlainObject(message.v) THEN Invalid(<< <<"Message must be an object">> >>)
  ELSE LET errors == IdErrors(message) \o KindErrors(message)
                     \o TimestampErrors(message) \o PayloadErrors(message)
                     \o MetaErrors(message) \o IntentErrors(registry, message)
       IN [exc |-> "", valid |-> Len(errors) = 0, errors |-> errors]

---------------------------------------------------------------------------
(* createIntentRequest, createExecutionResult, createHeartbeat,            *)
(* createErrorMessage                                                      *)

\* the outcome of a constructor: the envelope returned, or the error raised
NoEnvelope == [v |-> Absent]
Returned(envelope) == [exc |-> "", message |-> << >>, envelope |-> envelope]
Threw(kind, message) == [exc |-> kind, message |-> message, envelope |-> NoEnvelope]

EmptyObject == [v |-> Obj, own |-> << >>]

\* MetaSpread that copies the meta argument whatever it is
MetaSpread_Always(meta) == meta

\* ...(meta ? { meta } : {})
MetaSpread(meta) == IF Truthy(meta) THEN meta ELSE Absent

\* CheckedEnvelope without the validation of the envelope
CheckedEnvelope_Unchecked(registry, envelope, prefix) == Returned(envelope)

\* the second half of every constructor: validate the envelope, return or raise
CheckedEnvelope(registry, envelope, prefix) ==
  LET envelopeValidation == validateMessageEnvelope(registry, envelope)
  IN IF ~envelopeValidation.valid
     THEN Threw("Error", <<prefix>> \o Join(envelopeValidation.errors, "; "))
     ELSE Returned(envelope)

createIntentRequest(registry, id, intentName, inputPayload, meta, now) ==
  LET inputValidation == validateIntentInput(registry, intentName, inputPayload, FALSE)
  IN IF inputValidation.exc # "" THEN Threw(inputValidation.exc, << >>)
     ELSE IF ~inputValidation.valid
     THEN Threw("Error", <<"Invalid input for intent \"", intentName, "\": ">>
                           \o Join(inputValidation.errors, "; "))
     ELSE CheckedEnvelope(registry,
            [v |-> Obj, id |-> id, kind |-> Str(INTENT_REQUEST),
             intent |-> Str(intentName), timestamp |-> Num(now),
             payload |-> inputPayload, meta |-> MetaSpread(meta)],
            "Invalid envelope: ")

createExecutionResult(registry, id, intentName, outputPayload, meta, now) ==
  LET outputValidation == validateIntentOutput(registry, intentName, outputPayload, FALSE)
  IN IF outputValidation.exc # "" THEN Threw(outputValidation.exc, << >>)
     ELSE IF ~outputValidation.valid
     THEN Threw("Error", <<"Invalid output for intent \"", intentName, "\": ">>
                           \o Join(outputValidation.errors, "; "))
     ELSE CheckedEnvelope(registry,
            [v |-> Obj, id |-> id, kind |-> Str(EXECUTION_RESULT),
             intent |-> Str(intentName), timestamp |-> Num(now),
             payload |-> outputPayload, meta |-> MetaSpread(meta)],
            "Invalid envelope: ")

\* payload = {} applies when the argument is undefined
createHeartbeat(registry, id, payload, meta, now) ==
  CheckedEnvelope(registry,
    [v |-> Obj, id |-> id, kind |-> Str(HEARTBEAT), intent |-> Absent,
     timestamp |-> Num(now),
     payload |-> IF payload.v.t = "undefined" THEN EmptyObject ELSE payload,
     meta |-> MetaSpread(meta)],
    "Invalid heartbeat envelope: ")

\* details = {} applies when the argument is undefined
createErrorMessage(registry, id, code, messageText, details, meta, now) ==
  CheckedEnvelope(registry,
    [v |-> Obj, id |-> id, kind |-> Str(ERROR), intent |-> Absent,
     timestamp |-> Num(now),
     payload |-> [v |-> Obj,
                  own |-> << [k |-> "code", v |-> code],
                             [k |-> "message", v |-> messageText],
                             [k |-> "details",
                              v |-> IF details.t = "undefined" THEN Obj ELSE details] >>],
     meta |-> MetaSpread(meta)],
    "Invalid error envelope: ")

---------------------------------------------------------------------------
(* ALNKernel (src/src/core/ALNKernel.js): strings, the constructor, _log,    *)
(* _generatePlanId, _normalizeConstraints.  A string is a TLA+ string; an    *)
(* operation that logs returns [exc, value, logged]: the error it raised     *)
(* ("" when none), its result, and the events it handed to the logger.       *)

\* const name = value, then body(name): the value is computed once
Once(value, Body(_)) == CHOOSE result \in {Body(v) : v \in {value}} : TRUE

\* text.includes(part)
Includes(text, part) ==
  \E i \in 1..(Len(text) - Len(part) + 1) : SubSeq(text, i, i + Len(part) - 1) = part

\* the lower case of the letters A-Z
LowerCaseOf ==
  [c \in {"A", "B", "C", "D", "E", "F", "G", "H", "I", "J", "K", "L", "M", "N", "O",
          "P", "Q", "R", "S", "T", "U", "V", "W", "X", "Y", "Z"} |->
     CASE c = "A" -> "a" [] c = "B" -> "b" [] c = "C" -> "c" [] c = "D" -> "d"
       [] c = "E" -> "e" [] c = "F" -> "f" [] c = "G" -> "g" [] c = "H" -> "h"
       [] c = "I" -> "i" [] c = "J" -> "j" [] c = "K" -> "k" [] c = "L" -> "l"
       [] c = "M" -> "m" [] c = "N" -> "n" [] c = "O" -> "o" [] c = "P" -> "p"
       [] c = "Q" -> "q" [] c = "R" -> "r" [] c = "S" -> "s" [] c = "T" -> "t"
       [] c = "U" -> "u" [] c = "V" -> "v" [] c = "W" -> "w" [] c = "X" -> "x"
       [] c = "Y" -> "y" [] c = "Z" -> "z"]

\* text.toLowerCase()
RECURSIVE toLowerCase(_)
toLowerCase(text) ==
  IF Len(text) = 0 THEN ""
  ELSE LET first == SubSeq(text, 1, 1)
       IN (IF first \in DOMAIN LowerCaseOf THEN LowerCaseOf[first] ELSE first)
          \o toLowerCase(SubSeq(text, 2, Len(text)))

\* text.trim(), on blanks
RECURSIVE Trim(_)
Trim(text) ==
  IF Len(text) = 0 THEN ""
  ELSE IF SubSeq(text, 1, 1) = " " THEN Trim(SubSeq(text, 2, Len(text)))
  ELSE IF SubSeq(text, Len(text), Len(text)) = " "
       THEN Trim(SubSeq(text, 1, Len(text) - 1))
  ELSE text

\* an array of n elements
List(n) == [t |-> "array", s |-> "", n |-> n]

\* a logger function that raises on every event, and one that raises on the
\* one event it is named after; Fn is a logger that returns
ThrowingLogger == [t |-> "function", s |-> "throws", n |-> 0]
ThrowingLoggerOn(event) == [t |-> "function", s |-> event, n |-> 0]

\* new ALNKernel(options)
ALNKernel(options) ==
  [modelId |-> IF Truthy(options.modelId) THEN options.modelId
               ELSE Str("aln-runtime-v1"),
   maxReplicationHours |-> IF NumberIsFinite(options.maxReplicationHours)
                           THEN options.maxReplicationHours ELSE Num(24),
   logger |-> IF TypeOf(options.logger) = "function" THEN options.logger ELSE Fn]

\* a logger function that writes to the payload it is handed:
\* (event, payload) => { if (event === "aln.constraints.normalized") {
\*   payload.requireCompleteness = false; payload.maxReplicationTimeHours = -1;
\*   payload.jurisdictions = ["XX"]; } }
ModifyingLogger == [t |-> "function", s |-> "modifies", n |-> 0]

\* this.logger(event, payload): the error the logger raises, "" when it
\* returns, and the payload object as the logger leaves it
LoggerCall(kernel, event, payload) ==
  [exc |-> IF kernel.logger.s \in {"throws", event} THEN "Error" ELSE "",
   payload |-> IF kernel.logger.s = "modifies" /\ event = "aln.constraints.normalized"
               THEN [payload EXCEPT !.requireCompleteness = Bool(FALSE),
                                    !.maxReplicationTimeHours = Num(-1),
                                    !.jurisdictions = List(1)]
               ELSE payload]

\* _log without the try / catch around the logger
_log_Uncaught(kernel, event, payload) ==
  [exc |-> LoggerCall(kernel, event, payload).exc,
   payload |-> LoggerCall(kernel, event, payload).payload,
   logged |-> << [event |-> event, payload |-> payload] >>]

\* _log handing every event to the logger twice
_log_Twice(kernel, event, payload) ==
  [exc |-> "",
   payload |-> LoggerCall(kernel, event, payload).payload,
   logged |-> << [event |-> event, payload |-> payload],
                 [event |-> event, payload |-> payload] >>]

\* try { this.logger(event, payload) } catch { }: `logged` is the event as it
\* is handed to the logger, `payload` the payload object after the call
_log(kernel, event, payload) ==
  LET called == LoggerCall(kernel, event, payload)
  IN [exc |-> "", payload |-> called.payload,
      logged |-> << [event |-> event, payload |-> payload] >>]

\* new Date().toISOString(), `now` milliseconds after the epoch
toISOString(now) == "1970-01-01T00:00:00.00" \o ToString(now) \o "Z"

\* createHash("sha256").update(text).digest("hex").slice(0, 16): the first 16
\* hexadecimal digits of the digest, which tell the texts of the model apart
Sha256Hex16(text) == [digest |-> "sha256", digits |-> 16, of |-> text]

\* _generatePlanId without the model id in the hashed text
_generatePlanId_NoModelId(kernel, intentText, timestamp) ==
  Sha256Hex16(intentText \o "::" \o timestamp)

_generatePlanId(kernel, intentText, timestamp) ==
  Sha256Hex16(intentText \o "::" \o timestamp \o "::" \o StringOf(kernel.modelId))

\* { ...defaults, ...(constraints || {}) }[key]: the caller's own property
\* when it has one, whatever its value, else the default
Merged(constraints, key, default) ==
  IF Truthy(constraints.v) /\ IndexOf(constraints.own, key) # 0
  THEN constraints.own[IndexOf(constraints.own, key)].v
  ELSE default

\* constraints = {} applies when the argument is undefined
_normalizeConstraints(kernel, constraints) ==
  LET language == Merged(constraints, "language", Str("JavaScript"))
      hours == Merged(constraints, "maxReplicationTimeHours", kernel.maxReplicationHours)
      jurisdictions == Merged(constraints, "jurisdictions", List(0))
      providerPolicies == Merged(constraints, "providerPolicies", List(0))
      merged ==
        [language |-> IF TypeOf(language) = "string" /\ Trim(language.s) # ""
                      THEN Str(Trim(language.s)) ELSE Str("JavaScript"),
         requireCompleteness |->
           Bool(Truthy(Merged(constraints, "requireCompleteness", Bool(TRUE)))),
         forbidPlaceholders |->
           Bool(Truthy(Merged(constraints, "forbidPlaceholders", Bool(TRUE)))),
         maxReplicationTimeHours |->
           IF ~NumberIsFinite(hours) \/ hours.n <= 0
           THEN kernel.maxReplicationHours ELSE hours,
         jurisdictions |-> IF ~IsArray(jurisdictions) THEN List(0) ELSE jurisdictions,
         providerPolicies |->
           IF ~IsArray(providerPolicies) THEN List(0) ELSE providerPolicies,
         dataResidency |-> Merged(constraints, "dataResidency", Null)]
      log == _log(kernel, "aln.constraints.normalized", merged)
  IN [exc |-> log.exc, value |-> log.payload, logged |-> log.logged]

---------------------------------------------------------------------------
(* ALNKernel: _inferIntentType, _matchALNIntents, the derived lists,         *)
(* _inferEnvironmentHints, _synthesizeSteps, reason                          *)

\* _inferIntentType that looks for the repository words first
_inferIntentType_RepositoryFirst(text) ==
  Once(toLowerCase(text), LAMBDA lower :
    IF Includes(lower, "repo") \/ Includes(lower, "repository") THEN "repository_plan"
    ELSE IF Includes(lower, "workflow") \/ Includes(lower, "github") THEN "ci_workflow"
    ELSE IF Includes(lower, "python") \/ Includes(lower, "notebook")
    THEN "python_interop"
    ELSE IF Includes(lower, "policy") \/ Includes(lower, "compliance")
    THEN "policy_plan"
    ELSE "general_plan")

_inferIntentType(text) ==
  Once(toLowerCase(text), LAMBDA lower :
    IF Includes(lower, "workflow") \/ Includes(lower, "github") THEN "ci_workflow"
    ELSE IF Includes(lower, "repo") \/ Includes(lower, "repository")
    THEN "repository_plan"
    ELSE IF Includes(lower, "python") \/ Includes(lower, "notebook")
    THEN "python_interop"
    ELSE IF Includes(lower, "policy") \/ Includes(lower, "compliance")
    THEN "policy_plan"
    ELSE "general_plan")

\* the ids of the registry, in the order of Object.keys, that one of the four
\* rules matches with the text
\* _matchALNIntents without the `continue` statements: an id is pushed once
\* for every rule that holds for it
_matchALNIntents_NoContinue(kernel, registry, text) ==
  Once(toLowerCase(text), LAMBDA lower :
    LET Pushes(intent) ==
          Once(toLowerCase(intent.description), LAMBDA description :
            (IF Includes(description, "repository") /\ Includes(lower, "repo")
             THEN << intent.k >> ELSE << >>)
            \o (IF Includes(intent.k, "interop_python") /\ Includes(lower, "python")
                THEN << intent.k >> ELSE << >>)
            \o (IF Includes(intent.k, "define_virtual_object")
                   /\ Includes(lower, "virtual")
                THEN << intent.k >> ELSE << >>)
            \o (IF Includes(description, "policy") /\ Includes(lower, "policy")
                THEN << intent.k >> ELSE << >>))
        RECURSIVE PushesFrom(_)
        PushesFrom(i) ==
          IF i > Len(registry) THEN << >>
          ELSE Pushes(registry[i]) \o PushesFrom(i + 1)
    IN Once(PushesFrom(1), LAMBDA matched :
         LET log == _log(kernel, "aln.intents.matched", [matchedCount |-> Len(matched)])
         IN [exc |-> log.exc, value |-> matched, logged |-> log.logged]))

_matchALNIntents(kernel, registry, text) ==
  Once(toLowerCase(text), LAMBDA lower :
    LET Matches(intent) ==
          Once(toLowerCase(intent.description), LAMBDA description :
            \/ Includes(description, "repository") /\ Includes(lower, "repo")
            \/ Includes(intent.k, "interop_python") /\ Includes(lower, "python")
            \/ Includes(intent.k, "define_virtual_object") /\ Includes(lower, "virtual")
            \/ Includes(description, "policy") /\ Includes(lower, "policy"))
    IN Once(SelectSeq(registry, Matches), LAMBDA matching :
         LET matched == [i \in 1..Len(matching) |-> matching[i].k]
             log == _log(kernel, "aln.intents.matched", [matchedCount |-> Len(matched)])
         IN [exc |-> log.exc, value |-> matched, logged |-> log.logged]))

_deriveAssumptions(intentText, constraints) ==
  << "Outputs are intended for open-source or auditable environments.",
     "Target implementation language is " \o constraints.language.s \o "." >>
  \o (IF constraints.maxReplicationTimeHours.n <= 24
      THEN << "A motivated developer can reproduce outputs within 24 hours." >>
      ELSE << >>)
  \o (IF constraints.jurisdictions.n # 0
      THEN << "Plans must satisfy the strictest overlapping jurisdictional constraints." >>
      ELSE << >>)
  \o (IF Includes(toLowerCase(intentText), "github")
      THEN << "GitHub Actions or compatible CI is available." >>
      ELSE << >>)

_deriveRisks(intentText) ==
  Once(toLowerCase(intentText), LAMBDA lower :
    << "Risk of over-engineering structure for simple tasks." >>
    \o (IF Includes(lower, "neuro") \/ Includes(lower, "bci") \/ Includes(lower, "eeg")
        THEN << "Neurotech contexts require medical, ethical, and privacy reviews." >>
        ELSE << >>)
    \o (IF Includes(lower, "pii") \/ Includes(lower, "personal data")
        THEN << "Personal data processing must follow privacy and data protection rules." >>
        ELSE << >>)
    \o (IF Includes(lower, "safety") \/ Includes(lower, "critical")
        THEN << "Safety-critical systems require independent validation and redundancy." >>
        ELSE << >>))

_deriveTradeoffs ==
  << "Favor explicit compliance boundaries over opaque behavior.",
     "Prefer auditability and reproducibility over micro-optimizations.",
     "Prioritize cross-environment determinism over environment-specific hacks." >>

_buildIntegrityValidationRules(constraints) ==
  [requireCompleteness |-> constraints.requireCompleteness,
   forbidPlaceholders |-> constraints.forbidPlaceholders,
   disallowedPatterns |->
     <<"TODO", "FIXME", "placeholder", "lorem ipsum", "<insert", "stub only">>,
   minLinesOfCode |-> 1]

\* a property value that refers back to the object that holds it, and a BigInt
Circular == [t |-> "object", s |-> "circular", n |-> 0]
BigInt == [t |-> "bigint", s |-> "1n", n |-> 1]

\* JSON.stringify(value) of a property value that has a JSON text
JsonOf(value) ==
  CASE value.t = "string" -> "\"" \o value.s \o "\""
    [] value.t = "number" -> IF value.s = "finite" THEN ToString(value.n) ELSE "null"
    [] value.t = "boolean" -> value.s
    [] value.t = "array" -> "[]"
    [] value.t = "object" -> "{}"
    [] OTHER -> "null"

\* the members of the JSON text of an object: the properties whose value is
\* undefined, a function or a symbol are left out
RECURSIVE JsonMembers(_)
JsonMembers(props) ==
  LET kept == SelectSeq(props, LAMBDA p : p.v.t \notin {"undefined", "function", "symbol"})
  IN IF Len(kept) = 0 THEN ""
     ELSE "\"" \o kept[1].k \o "\":" \o JsonOf(kept[1].v)
          \o (IF Len(kept) = 1 THEN "" ELSE "," \o JsonMembers(Tail(kept)))

\* JSON.stringify(context): a TypeError on a circular reference or a BigInt,
\* undefined for a function, else the JSON text
JsonStringify(context) ==
  IF \E i \in 1..Len(context.own) : context.own[i].v \in {Circular, BigInt}
  THEN [exc |-> "TypeError", defined |-> FALSE, text |-> ""]
  ELSE IF context.v.t \in {"undefined", "function", "symbol"}
  THEN [exc |-> "", defined |-> FALSE, text |-> ""]
  ELSE IF context.v.t = "object"
  THEN [exc |-> "", defined |-> TRUE, text |-> "{" \o JsonMembers(context.own) \o "}"]
  ELSE [exc |-> "", defined |-> TRUE, text |-> JsonOf(context.v)]

\* JSON.stringify(context).toLowerCase() raises when JSON.stringify raises, and
\* when it returns undefined
_inferEnvironmentHints(context) ==
  Once(JsonStringify(context), LAMBDA json :
    IF json.exc # "" \/ ~json.defined THEN [exc |-> "TypeError"]
    ELSE
      Once(toLowerCase(json.text), LAMBDA ctxString :
        LET hasCI == Includes(ctxString, "github") \/ Includes(ctxString, "gitlab")
                     \/ Includes(ctxString, "ci")
        IN [exc |-> "",
            value |->
              [hasCI |-> hasCI,
               hasKubernetes |->
                 Includes(ctxString, "kubernetes") \/ Includes(ctxString, "k8s"),
               hasNeuromorphicHardware |->
                 Includes(ctxString, "neuromorphic") \/ Includes(ctxString, "bci")
                 \/ Includes(ctxString, "eeg"),
               ciProvider |->
                 IF ~hasCI THEN Null
                 ELSE IF Includes(ctxString, "github") THEN Str("github_actions")
                 ELSE IF Includes(ctxString, "gitlab") THEN Str("gitlab_ci")
                 ELSE Str("generic_ci"),
               runtime |->
                 IF Includes(ctxString, "node.js") \/ Includes(ctxString, "nodejs")
                    \/ Includes(ctxString, "node")
                 THEN Str("node")
                 ELSE IF Includes(ctxString, "browser") THEN Str("browser")
                 ELSE Null]]))

\* steps.push(step) at the front of the list
Push_Front(steps, step) == <<step>> \o steps

\* steps.push(step)
Push(steps, step) == Append(steps, step)

\* the steps of the plan, in the order they are pushed; it raises what
\* _inferEnvironmentHints raises
_synthesizeSteps(kernel, registry, intentText, intentType, constraints, context) ==
  Once(_matchALNIntents(kernel, registry, intentText), LAMBDA matched :
  Once(_inferEnvironmentHints(context), LAMBDA hints :
  LET analyzed ==
        Push(<< >>,
             [id |-> "analyze-intent",
              description |-> "Classify intent and map to ALN intents.",
              output |-> [intentType |-> IF Truthy(intentType) THEN intentType
                                         ELSE Str(_inferIntentType(intentText)),
                          matchedALNIntents |-> matched.value],
              priority |-> "high"])
      designed ==
        Push(analyzed,
             [id |-> "design-structure",
              description |-> "Design structures (files, workflows, compliance hooks).",
              output |-> [requiresRepoPlan |-> Bool(TRUE),
                          language |-> constraints.language,
                          replicationHours |-> constraints.maxReplicationTimeHours],
              priority |-> "high"])
      complied ==
        IF constraints.jurisdictions.n # 0 \/ constraints.providerPolicies.n # 0
        THEN Push(designed,
                  [id |-> "compliance-alignment",
                   description |-> "Align plan with declared jurisdictions and policies.",
                   output |-> [jurisdictions |-> constraints.jurisdictions,
                               providerPolicies |-> constraints.providerPolicies,
                               dataResidency |-> constraints.dataResidency],
                   priority |-> "high"])
        ELSE designed
      enforced ==
        Push(complied,
             [id |-> "enforce-integrity",
              description |-> "Require complete, placeholder-free code outputs.",
              output |-> [requireCompleteness |-> constraints.requireCompleteness,
                          forbidPlaceholders |-> constraints.forbidPlaceholders,
                          validationRules |-> _buildIntegrityValidationRules(constraints)],
              priority |-> "medium"])
      aligned ==
        IF Len(ObjectKeys(context)) > 0
        THEN Push(enforced,
                  [id |-> "context-alignment",
                   description |->
                     "Align plan with host system context (chat, CI, runtime).",
                   output |-> [contextKeys |-> ObjectKeys(context),
                               environmentHints |-> hints.value],
                   priority |-> "medium"])
        ELSE enforced
      steps ==
        Push(aligned,
             [id |-> "replication-strategy",
              description |-> "Guarantee 24-hour replication for a motivated developer.",
              output |-> [replicationGuaranteeHours |-> constraints.maxReplicationTimeHours,
                          assumptions |-> << "Node.js LTS and Git available.",
                                             "GitHub or equivalent git host accessible." >>,
                          developerProfile |-> "motivated_single_developer"],
              priority |-> "medium"])
      log == _log(kernel, "aln.steps.synthesized", [count |-> Len(steps)])
  IN IF matched.exc # "" THEN [exc |-> matched.exc, logged |-> matched.logged]
     ELSE IF Len(ObjectKeys(context)) > 0 /\ hints.exc # ""
     THEN [exc |-> hints.exc, logged |-> matched.logged]
     ELSE [exc |-> log.exc, value |-> steps, logged |-> matched.logged \o log.logged]))

\* the outcome of reason: the plan returned, or the error raised; logged are the
\* events handed to the logger, clockReads the number of times the clock was read
Planned(planId, steps, transparencyTrail, logged) ==
  [exc |-> "", message |-> "", planId |-> planId, steps |-> steps,
   transparencyTrail |-> transparencyTrail, logged |-> logged, clockReads |-> 1]
Failed(kind, message, logged, clockReads) ==
  [exc |-> kind, message |-> message, logged |-> logged, clockReads |-> clockReads]

\* the test of the intent text, without the test of emptiness
InvalidIntentText_TypeOnly(intentText) == TypeOf(intentText) # "string"

\* !intentText || typeof intentText !== "string"
InvalidIntentText(intentText) == ~Truthy(intentText) \/ TypeOf(intentText) # "string"

\* reason(intentText, intentType, constraints = {}, context = {}) of the kernel,
\* called when the clock shows `now`
reason(kernel, registry, intentText, intentType, constraints, context, now) ==
  IF InvalidIntentText(intentText)
  THEN Failed("Error", "ALNKernel.reason: intentText must be a non-empty string.",
              << >>, 0)
  ELSE
    Once(toISOString(now), LAMBDA timestamp :
    Once(_generatePlanId(kernel, intentText.s, timestamp), LAMBDA planId :
    Once(_normalizeConstraints(kernel, constraints), LAMBDA normalized :
    Once(IF Truthy(intentType) THEN intentType ELSE Str(_inferIntentType(intentText.s)),
         LAMBDA resolvedIntentType :
    Once(_synthesizeSteps(kernel, registry, intentText.s, resolvedIntentType,
                          normalized.value,
                          IF Truthy(context.v) THEN context ELSE EmptyObject),
         LAMBDA steps :
      LET transparencyTrail ==
            [planId |-> planId,
             modelId |-> kernel.modelId,
             intentText |-> intentText.s,
             intentType |-> resolvedIntentType,
             constraints |-> normalized.value,
             createdAt |-> timestamp,
             assumptions |-> _deriveAssumptions(intentText.s, normalized.value),
             risks |-> _deriveRisks(intentText.s),
             tradeoffs |-> _deriveTradeoffs]
          log == _log(kernel, "aln.plan.generated",
                      [planId |-> planId, modelId |-> kernel.modelId,
                       stepCount |-> Len(steps.value), intentType |-> resolvedIntentType,
                       createdAt |-> timestamp])
      IN IF normalized.exc # "" THEN Failed(normalized.exc, "", normalized.logged, 1)
         ELSE IF steps.exc # ""
         THEN Failed(steps.exc, "", normalized.logged \o steps.logged, 1)
         ELSE IF log.exc # ""
         THEN Failed(log.exc, "", normalized.logged \o steps.logged \o log.logged, 1)
         ELSE Planned(planId, steps.value, transparencyTrail,
                      normalized.logged \o steps.logged \o log.logged))))))

---------------------------------------------------------------------------
(* The inputs the calls are made with *)

\* the object whose own properties are keys[i] |-> choice[i], in the order of
\* keys, the keys whose choice is `none` left out
ObjectFrom(keys, choice, none) ==
  LET present == SelectSeq([i \in 1..Len(keys) |-> i], LAMBDA i : choice[i] # none)
  IN [j \in 1..Len(present) |-> [k |-> keys[present[j]], v |-> choice[present[j]]]]

\* every sequence of properties over `keys` with values in `values`, any key absent
ObjectsOver(keys, values, none) ==
  {ObjectFrom(keys, choice, none) : choice \in [1..Len(keys) -> values \cup {none}]}

\* values of every runtime class validatePrimitive tells apart
Values ==
  {Undefined, Null, Str(""), Str("x"), Num(0), Num(1), NaN, Infinity, Bool(TRUE),
   Bool(FALSE), Arr, Fn, Sym, Obj, NullProtoObj}

\* the nine primitive tags and one that is not a primitive
Tags == ALNPrimitives \cup {"aln::bogus"}

\* values that are not objects with fields, as payloads and messages
NonObjects == {Undefined, Null, Arr, Str("x")}

\* shapes and payloads of the validateShape calls
ShapeFieldNames == SubSeq(FieldNames, 1, MaxFields)
ShapeTags == {STRING_, NUMBER, OBJECT}
FieldValues == {Str("x"), Num(1), NullProtoObj}
Shapes ==
  {[defined |-> TRUE, entries |-> entries] :
     entries \in ObjectsOver(ShapeFieldNames, ShapeTags, "")}
ShapePayloads ==
  {[v |-> v, own |-> own] :
     v \in {Obj, DerivedObj},
     own \in ObjectsOver(ShapeFieldNames \o <<"extra">>, FieldValues, Absent)}
  \cup {[v |-> v, own |-> << >>] : v \in NonObjects}

\* intent names: the three registered ones, an unknown one, and a name that
\* every object inherits
IntentNames ==
  {intents[i].k : i \in 1..Len(intents)} \cup {"aln::unknown", "constructor"}

\* a value that passes the tag, and one that fails every tag of the registry
GoodValue(primitive) ==
  CASE primitive = STRING_ -> Str("x")
    [] primitive = OBJECT -> Obj
    [] primitive = ARRAY -> Arr
    [] OTHER -> Obj
BadValue == Num(1)

\* the payloads built on a registry shape: each field absent, good or bad, and
\* one more key there or not
PayloadsOn(entries) ==
  {[v |-> Obj,
    own |-> ObjectFrom([i \in 1..(Len(entries) + 1) |->
                          IF i <= Len(entries) THEN entries[i].k ELSE "extra"],
                       choice, Absent)] :
     choice \in {c \in [1..(Len(entries) + 1) -> {Absent, Str("x"), Obj, Arr, BadValue}] :
                   /\ \A i \in 1..Len(entries) :
                        c[i] \in {Absent, GoodValue(entries[i].v), BadValue}
                   /\ c[Len(entries) + 1] \in {Absent, Str("x")}}}

InputPayloads ==
  UNION {PayloadsOn(intents[i].inputShape) : i \in 1..Len(intents)}
  \cup {[v |-> v, own |-> << >>] : v \in NonObjects}
OutputPayloads ==
  UNION {PayloadsOn(intents[i].outputShape) : i \in 1..Len(intents)}
  \cup {[v |-> v, own |-> << >>] : v \in NonObjects}

\* messages handed to validateMessageEnvelope
MessageIds == {Absent, Str(""), Str("msg-1"), Num(1)}
MessageKinds ==
  {Str(ALNMessageKinds[i]) : i \in 1..Len(ALNMessageKinds)}
  \cup {Str("aln::bogus"), Absent}
MessageTimestamps == {Num(0), NaN, Infinity, Str("0")}
MessagePayloads == {[v |-> v, own |-> << >>] : v \in {Obj, Null, Arr, Absent}}
MessageMetas == {Absent, Undefined, Obj, Null, Arr}
MessageIntents ==
  {Absent, Str(""), Str("aln::plan_repository"), Str("aln::unknown"),
   Str("constructor"), Num(1)}
Messages ==
  [v : {Obj}, id : MessageIds, kind : MessageKinds, intent : MessageIntents,
   timestamp : MessageTimestamps, payload : MessagePayloads, meta : MessageMetas]
  \cup [v : NonObjects, id : {Absent}, kind : {Absent}, intent : {Absent},
        timestamp : {Absent}, payload : {[v |-> Absent, own |-> << >>]},
        meta : {Absent}]

\* arguments of the constructors
Ids == {Str("msg-1"), Str(""), Undefined}
Metas == {Undefined, Null, Obj, Arr}
HeartbeatPayloads == {[v |-> v, own |-> << >>] : v \in {Undefined, Obj, Null, Arr, Str("x")}}
Codes == {Str("E_FAIL"), Undefined}
Details == {Undefined, Obj, Null}
Clock == 0..MaxClock

\* the intentText arguments of reason: texts, and values that are no text
IntentTexts ==
  {Str("Plan a repository with a GitHub workflow"), Str("Create a repo"),
   Str("Run Python in a notebook"), Str("Draft a compliance policy"),
   Str("Define a virtual object"), Str("WORKFLOW"), Str("Hello"),
   Str("Handle PII on a safety critical BCI"),
   Str(""), Undefined, Null, Num(0), Num(5), Bool(TRUE), Arr, Obj}

\* the intentType arguments of reason
IntentTypes == {Undefined, Str(""), Str("custom_plan")}

\* the constraints arguments of reason
ConstraintSets ==
  {[v |-> Undefined, own |-> << >>], [v |-> Null, own |-> << >>]}
  \cup {[v |-> Obj, own |-> own] :
          own \in ObjectsOver(<<"requireCompleteness", "forbidPlaceholders",
                                "maxReplicationTimeHours">>,
                              {Undefined, Bool(FALSE), Num(5)}, Absent)
                  \cup ObjectsOver(<<"maxReplicationTimeHours">>,
                                   {Num(0), Num(-1), Num(48), NaN, Infinity, Str("12")},
                                   Absent)
                  \cup ObjectsOver(<<"jurisdictions", "providerPolicies">>,
                                   {List(n) : n \in 0..MaxItems} \cup {Str("EU")}, Absent)
                  \cup ObjectsOver(<<"language", "dataResidency">>,
                                   {Str("  "), Str(" Rust "), Num(5)}, Absent)}

\* the context arguments of reason
Contexts ==
  {[v |-> Undefined, own |-> << >>], [v |-> Null, own |-> << >>], EmptyObject,
   [v |-> Obj, own |-> << [k |-> "ci", v |-> Str("GitHub")] >>],
   [v |-> Obj, own |-> << [k |-> "runtime", v |-> Str("Node.js")],
                          [k |-> "replicas", v |-> Num(3)] >>],
   [v |-> Obj, own |-> << [k |-> "self", v |-> Circular] >>],
   [v |-> Obj, own |-> << [k |-> "budget", v |-> BigInt] >>],
   [v |-> Fn, own |-> << [k |-> "host", v |-> Str("browser")] >>],
   [v |-> Str("ci"), own |-> << [k |-> "0", v |-> Str("c")],
                                [k |-> "1", v |-> Str("i")] >>]}

\* the options a kernel is constructed with
ModelIds == {Undefined, Str(""), Str("aln-runtime-v2")}
Loggers ==
  {Undefined, Str("console"), Fn, ThrowingLogger, ThrowingLoggerOn("aln.intents.matched")}
ReplicationHours == {Undefined, Num(48), Num(0), Num(-5), NaN}

\* the calls of reason: every text and intent type on kernels of every model
\* id; every constraint set on kernels of every replication default; every
\* context with every logger
ReasonInputs ==
  {[options |-> [modelId |-> modelId, maxReplicationHours |-> Undefined,
                 logger |-> logger],
    intentText |-> intentText, intentType |-> intentType,
    constraints |-> [v |-> Undefined, own |-> << >>], context |-> context] :
     modelId \in ModelIds, logger \in {Undefined, ThrowingLogger},
     intentText \in IntentTexts, intentType \in IntentTypes,
     context \in {[v |-> Undefined, own |-> << >>],
                  [v |-> Obj, own |-> << [k |-> "ci", v |-> Str("GitHub")] >>]}}
  \cup
  {[options |-> [modelId |-> Undefined, maxReplicationHours |-> hours,
                 logger |-> logger],
    intentText |-> Str("Create a repo"), intentType |-> Undefined,
    constraints |-> constraints, context |-> [v |-> Undefined, own |-> << >>]] :
     hours \in ReplicationHours, logger \in {Undefined, ThrowingLogger},
     constraints \in ConstraintSets}
  \cup
  {[options |-> [modelId |-> Undefined, maxReplicationHours |-> Undefined,
                 logger |-> logger],
    intentText |-> intentText, intentType |-> Undefined,
    constraints |-> constraints, context |-> context] :
     logger \in Loggers,
     intentText \in {Str("Hello"), Str("Plan a repository with a GitHub workflow")},
     constraints \in {[v |-> Undefined, own |-> << >>],
                      [v |-> Obj, own |-> << [k |-> "jurisdictions", v |-> List(1)] >>],
                      [v |-> Obj, own |-> << [k |-> "providerPolicies", v |-> List(2)] >>]},
     context \in Contexts}

---------------------------------------------------------------------------
(* The state machine: one call at a time, then its return *)

NoCall == [op |-> "none"]
NoResult == [exc |-> "none"]

Init ==
  /\ pc = "idle"
  /\ call = NoCall
  /\ ret = NoResult
  /\ intents = ALNSpecIntents
  /\ kernels = << >>

CallValidatePrimitive ==
  /\ pc = "idle"
  /\ \E value \in Values, primitive \in Tags :
       /\ call' = [op |-> "validatePrimitive", value |-> value, primitive |-> primitive]
       /\ ret' = validatePrimitive(value, primitive)
  /\ pc' = "done"
  /\ UNCHANGED <<intents, kernels>>

CallValidateShape ==
  /\ pc = "idle"
  /\ \E payload \in ShapePayloads, shape \in Shapes, allowExtraKeys \in BOOLEAN :
       /\ call' = [op |-> "validateShape", payload |-> payload, shape |-> shape,
                   allowExtraKeys |-> allowExtraKeys]
       /\ ret' = validateShape(payload, shape, allowExtraKeys)
  /\ pc' = "done"
  /\ UNCHANGED <<intents, kernels>>

CallValidateIntentInput ==
  /\ pc = "idle"
  /\ \E intentName \in IntentNames, payload \in InputPayloads,
        allowExtraKeys \in BOOLEAN :
       /\ call' = [op |-> "validateIntentInput", intentName |-> intentName,
                   payload |-> payload, allowExtraKeys |-> allowExtraKeys]
       /\ ret' = validateIntentInput(intents, intentName, payload, allowExtraKeys)
  /\ pc' = "done"
  /\ UNCHANGED <<intents, kernels>>

CallValidateIntentOutput ==
  /\ pc = "idle"
  /\ \E intentName \in IntentNames, payload \in OutputPayloads,
        allowExtraKeys \in BOOLEAN :
       /\ call' = [op |-> "validateIntentOutput", intentName |-> intentName,
                   payload |-> payload, allowExtraKeys |-> allowExtraKeys]
       /\ ret' = validateIntentOutput(intents, intentName, payload, allowExtraKeys)
  /\ pc' = "done"
  /\ UNCHANGED <<intents, kernels>>

CallValidateMessageEnvelope ==
  /\ pc = "idle"
  /\ \E message \in Messages :
       /\ call' = [op |-> "validateMessageEnvelope", message |-> message]
       /\ ret' = validateMessageEnvelope(intents, message)
  /\ pc' = "done"
  /\ UNCHANGED <<intents, kernels>>

CallCreateIntentRequest ==
  /\ pc = "idle"
  /\ \E id \in Ids, intentName \in IntentNames, payload \in InputPayloads,
        meta \in Metas, now \in Clock :
       /\ call' = [op |-> "createIntentRequest", id |-> id, intentName |-> intentName,
                   payload |-> payload, meta |-> meta, now |-> now]
       /\ ret' = createIntentRequest(intents, id, intentName, payload, meta, now)
  /\ pc' = "done"
  /\ UNCHANGED <<intents, kernels>>

CallCreateExecutionResult ==
  /\ pc = "idle"
  /\ \E id \in Ids, intentName \in IntentNames, payload \in OutputPayloads,
        meta \in Metas, now \in Clock :
       /\ call' = [op |-> "createExecutionResult", id |-> id, intentName |-> intentName,
                   payload |-> payload, meta |-> meta, now |-> now]
       /\ ret' = createExecutionResult(intents, id, intentName, payload, meta, now)
  /\ pc' = "done"
  /\ UNCHANGED <<intents, kernels>>

CallCreateHeartbeat ==
  /\ pc = "idle"
  /\ \E id \in Ids, payload \in HeartbeatPayloads, meta \in Metas, now \in Clock :
       /\ call' = [op |-> "createHeartbeat", id |-> id, payload |-> payload,
                   meta |-> meta, now |-> now]
       /\ ret' = createHeartbeat(intents, id, payload, meta, now)
  /\ pc' = "done"
  /\ UNCHANGED <<intents, kernels>>

CallCreateErrorMessage ==
  /\ pc = "idle"
  /\ \E id \in Ids, code \in Codes, details \in Details, meta \in Metas, now \in Clock :
       /\ call' = [op |-> "createErrorMessage", id |-> id, code |-> code,
                   messageText |-> Str("failed"), details |-> details, meta |-> meta,
                   now |-> now]
       /\ ret' = createErrorMessage(intents, id, code, Str("failed"), details, meta, now)
  /\ pc' = "done"
  /\ UNCHANGED <<intents, kernels>>

\* new ALNKernel(options).reason(intentText, intentType, constraints, context)
CallReason ==
  /\ pc = "idle"
  /\ \E input \in ReasonInputs, now \in Clock :
       /\ call' = [op |-> "reason", options |-> input.options,
                   intentText |-> input.intentText, intentType |-> input.intentType,
                   constraints |-> input.constraints, context |-> input.context,
                   now |-> now]
       /\ ret' = reason(ALNKernel(input.options), intents, input.intentText,
                        input.intentType, input.constraints, input.context, now)
  /\ pc' = "done"
  /\ UNCHANGED <<intents, kernels>>

\* the caller takes the result; the next call starts from the same registry
Return ==
  /\ pc = "done"
  /\ pc' = "idle"
  /\ call' = NoCall
  /\ ret' = NoResult
  /\ UNCHANGED <<intents, kernels>>

Next ==
  \/ CallValidatePrimitive
  \/ CallValidateShape
  \/ CallValidateIntentInput
  \/ CallValidateIntentOutput
  \/ CallValidateMessageEnvelope
  \/ CallCreateIntentRequest
  \/ CallCreateExecutionResult
  \/ CallCreateHeartbeat
  \/ CallCreateErrorMessage
  \/ CallReason
  \/ Return

Spec == Init /\ [][Next]_vars

---------------------------------------------------------------------------
(* Kernel instances that live across calls: kernels are constructed once and
   reason is called on them again and again, between calls of the protocol *)

\* at most MaxKernels kernel instances are constructed
MaxKernels == 2

\* the options the long-lived kernels are constructed with
KernelOptions ==
  {[modelId |-> Undefined, maxReplicationHours |-> Undefined, logger |-> Undefined],
   [modelId |-> Str("aln-runtime-v2"), maxReplicationHours |-> Num(48),
    logger |-> ThrowingLogger],
   [modelId |-> Undefined, maxReplicationHours |-> Num(0), logger |-> Fn],
   [modelId |-> Undefined, maxReplicationHours |-> Undefined,
    logger |-> ModifyingLogger]}

\* Object.freeze(ALNSpec) is shallow: ALNSpec.intents takes the intents the host
\* program registers next to the three of the module
HostIntents ==
  ALNSpecIntents
  \o << [k |-> "host::repository_policy",
         description |-> "Set the Policy of a Repository.",
         inputShape |-> << [k |-> "policy", v |-> STRING_] >>,
         outputShape |-> << [k |-> "id", v |-> STRING_] >>] >>

\* the registries a process may run with
Registries == {ALNSpecIntents, HostIntents}

\* the texts planned on the long-lived kernels
KernelTexts ==
  {Str("Create a repo"), Str("Run Python in a notebook"),
   Str("Define a virtual object"), Str("Draft a compliance policy"),
   Str("A POLICY for the REPO of Python virtual objects"), Str("Hello"), Undefined}

\* the calls of reason on the long-lived kernels
KernelCalls ==
  {[intentText |-> intentText, intentType |-> Undefined,
    constraints |-> [v |-> Undefined, own |-> << >>],
    context |-> [v |-> Undefined, own |-> << >>]] : intentText \in KernelTexts}
  \cup
  {[intentText |-> Str("Create a repo"), intentType |-> Str("custom_plan"),
    constraints |-> constraints,
    context |-> [v |-> Obj, own |-> << [k |-> "ci", v |-> Str("GitHub")] >>]] :
     constraints \in
       {[v |-> Obj, own |-> << [k |-> "jurisdictions", v |-> List(1)] >>],
        [v |-> Obj, own |-> << [k |-> "maxReplicationTimeHours", v |-> Num(5)] >>]}}

InitKernels ==
  /\ pc = "idle"
  /\ call = NoCall
  /\ ret = NoResult
  /\ intents \in Registries
  /\ kernels = << >>

\* const kernel = new ALNKernel(options)
NewALNKernel ==
  /\ pc = "idle"
  /\ Len(kernels) < MaxKernels
  /\ \E options \in KernelOptions : kernels' = Append(kernels, ALNKernel(options))
  /\ UNCHANGED <<pc, call, ret, intents>>

\* reason on a kernel that keeps the plan id of its last call in its modelId
CallKernelReason_KeepsPlanId ==
  /\ pc = "idle"
  /\ \E k \in 1..Len(kernels), input \in KernelCalls, now \in Clock :
       /\ call' = [op |-> "kernel.reason", kernel |-> k,
                   intentText |-> input.intentText, intentType |-> input.intentType,
                   constraints |-> input.constraints, context |-> input.context,
                   now |-> now]
       /\ ret' = reason(kernels[k], intents, input.intentText, input.intentType,
                        input.constraints, input.context, now)
       /\ kernels' = [kernels EXCEPT ![k].modelId = Str("last-plan")]
  /\ pc' = "done"
  /\ UNCHANGED intents

\* kernels[k].reason(intentText, intentType, constraints, context): the
\* method reads this.modelId, this.maxReplicationHours and this.logger and
\* assigns none of them
CallKernelReason ==
  /\ pc = "idle"
  /\ \E k \in 1..Len(kernels), input \in KernelCalls, now \in Clock :
       /\ call' = [op |-> "kernel.reason", kernel |-> k,
                   intentText |-> input.intentText, intentType |-> input.intentType,
                   constraints |-> input.constraints, context |-> input.context,
                   now |-> now]
       /\ ret' = reason(kernels[k], intents, input.intentText, input.intentType,
                        input.constraints, input.context, now)
  /\ pc' = "done"
  /\ UNCHANGED <<intents, kernels>>

NextKernels ==
  \/ NewALNKernel
  \/ CallKernelReason
  \/ CallValidatePrimitive
  \/ CallValidateIntentOutput
  \/ CallCreateHeartbeat
  \/ CallCreateErrorMessage
  \/ Return

SpecKernels == InitKernels /\ [][NextKernels]_vars

---------------------------------------------------------------------------
(* What the calls are checked against *)

\* the number of occurrences of x in a sequence
Count(list, x) == Cardinality({i \in 1..Len(list) : list[i] = x})

\* the number of messages of a list that start with the fragment `first`
CountStarting(list, first) == Cardinality({i \in 1..Len(list) : list[i][1] = first})

KeySet(props) == {props[i].k : i \in 1..Len(props)}

\* the names of the intents of the registry
RegisteredIntents == KeySet(intents)

\* the structural rule of each primitive tag
MatchesTag(value, tag) ==
  CASE tag = STRING_ -> value.t = "string"
    [] tag = NUMBER -> value.t = "number" /\ value.s = "finite"
    [] tag = BOOLEAN_ -> value.t = "boolean"
    [] tag = OBJECT -> value.t = "object"
    [] tag = ARRAY -> value.t = "array"
    [] tag \in {VIRTUAL_OBJECT, INTENT, PLAN, SIGNAL} -> value.t \in {"object", "array"}
    [] OTHER -> FALSE

\* the call returned a result that says valid
ReturnedValid == ret.exc = "" /\ ret.valid

\* C3: validatePrimitive returns valid=true exactly when the value matches the
\* structural rule of the tag: string, finite number, boolean, non-null
\* non-array object, array, non-null structured value; never for a tag outside
\* the nine primitives.
C3_PrimitiveVerdict ==
  call.op = "validatePrimitive" =>
    (ReturnedValid <=> MatchesTag(call.value, call.primitive))

\* an array is refused for the object tag, NaN for the number tag
C3_Witness ==
  /\ call.op = "validatePrimitive"
  /\ call.value = Arr
  /\ call.primitive = OBJECT
  /\ ret.exc = ""
  /\ ~ret.valid

---------------------------------------------------------------------------
(* validateShape *)

\* the value of key `key` among the own properties `props`
OwnValue(props, key) == props[IndexOf(props, key)].v

\* the payload is an object whose keys are exactly those of the shape, each
\* value matching its tag
ExactlyShaped(payload, entries) ==
  /\ payload.v.t = "object"
  /\ KeySet(payload.own) = KeySet(entries)
  /\ \A i \in 1..Len(entries) :
       MatchesTag(OwnValue(payload.own, entries[i].k), entries[i].v)

\* the payload without its own keys that the shape does not name
WithoutExtraKeys(payload, entries) ==
  [v |-> payload.v,
   own |-> SelectSeq(payload.own, LAMBDA prop : IndexOf(entries, prop.k) # 0)]

\* C1: validateShape(payload, shape, false) returns valid=true exactly when the
\* payload is a non-array object whose set of keys is the set of keys of the
\* shape and every value passes its tag; with allowExtraKeys=true the keys that
\* are not in the shape do not change the verdict.
C1_ExactKeys ==
  call.op = "validateShape" =>
    /\ ~call.allowExtraKeys =>
         (ReturnedValid <=> ExactlyShaped(call.payload, call.shape.entries))
    /\ call.allowExtraKeys =>
         (ReturnedValid <=>
            ExactlyShaped(WithoutExtraKeys(call.payload, call.shape.entries),
                          call.shape.entries))

\* the shape fields the payload does not have (own or inherited)
MissingFields(payload, entries) ==
  {i \in 1..Len(entries) : ~HasProperty(payload, entries[i].k)}

\* the shape fields the payload has with a value that fails the tag
FailingFields(payload, entries) ==
  {i \in 1..Len(entries) :
     /\ HasProperty(payload, entries[i].k)
     /\ ~MatchesTag(Get(payload, entries[i].k), entries[i].v)}

\* the own keys of the payload that the shape does not name
ExtraKeys(payload, entries) == KeySet(payload.own) \ KeySet(entries)

\* the errors of a validateShape call are one per violation, each told apart by
\* its first fragment and the field it names
OneErrorPerViolation(payload, entries, allowExtraKeys, errors) ==
  /\ \A i \in 1..Len(entries) :
       /\ Cardinality({j \in 1..Len(errors) :
            errors[j][1] = "Missing required field \"" /\ errors[j][2] = entries[i].k})
          = IF i \in MissingFields(payload, entries) THEN 1 ELSE 0
       /\ Cardinality({j \in 1..Len(errors) :
            errors[j][1] = "Field \"" /\ errors[j][2] = entries[i].k})
          = IF i \in FailingFields(payload, entries) THEN 1 ELSE 0
  /\ \A key \in KeySet(payload.own) :
       Cardinality({j \in 1..Len(errors) :
         errors[j][1] = "Unexpected field \"" /\ errors[j][2] = key})
       = IF ~allowExtraKeys /\ key \in ExtraKeys(payload, entries) THEN 1 ELSE 0
  /\ Len(errors) = Cardinality(MissingFields(payload, entries))
                   + Cardinality(FailingFields(payload, entries))
                   + IF allowExtraKeys THEN 0
                     ELSE Cardinality(ExtraKeys(payload, entries))

\* C2: for a non-array object payload validateShape returns an errors list with
\* exactly one entry per missing field, per field failing its tag and (extra
\* keys disallowed) per key not in the shape; any other payload yields the
\* single error and no field check.
C2_AllViolationsReported ==
  call.op = "validateShape" =>
    /\ ret.exc = ""
    /\ IF call.payload.v.t = "object"
       THEN OneErrorPerViolation(call.payload, call.shape.entries,
                                 call.allowExtraKeys, ret.errors)
       ELSE Len(ret.errors) = 1 /\ ret.errors[1][1] = "Payload must be an object, got "

\* the same count, on the calls of validateShape that return
C2_CountsWhenReturned ==
  (call.op = "validateShape" /\ ret.exc = "" /\ call.payload.v.t = "object") =>
    OneErrorPerViolation(call.payload, call.shape.entries,
                         call.allowExtraKeys, ret.errors)

---------------------------------------------------------------------------
(* validateMessageEnvelope *)

\* the rules of the envelope, one by one
IdRuleViolated(message) == ~(message.id.t = "string" /\ message.id.s # "")
KindRuleViolated(message) ==
  ~(message.kind.t = "string"
    /\ message.kind.s \in {INTENT_REQUEST, INTENT_PLAN, EXECUTION_RESULT, ERROR,
                           HEARTBEAT, SPEC_QUERY, SPEC_RESPONSE})
TimestampRuleViolated(message) ==
  ~(message.timestamp.t = "number" /\ message.timestamp.s = "finite")
PayloadRuleViolated(message) == message.payload.v.t \notin {"object", "array"}
MetaRuleViolated(message) == message.meta.t \notin {"absent", "object"}

\* the kind is one of the three that carry an intent
BearsIntent(message) ==
  message.kind.t = "string"
  /\ message.kind.s \in {INTENT_REQUEST, INTENT_PLAN, EXECUTION_RESULT}

NonEmptyString(value) == value.t = "string" /\ value.s # ""

\* the intent is a non-empty string that names an intent of the registry
IntentRegistered(message) ==
  NonEmptyString(message.intent) /\ message.intent.s \in RegisteredIntents

WellFormedEnvelope(message) ==
  /\ message.v.t = "object"
  /\ ~IdRuleViolated(message)
  /\ ~KindRuleViolated(message)
  /\ ~TimestampRuleViolated(message)
  /\ ~PayloadRuleViolated(message)
  /\ ~MetaRuleViolated(message)
  /\ BearsIntent(message) => IntentRegistered(message)

\* C4: validateMessageEnvelope returns valid=true exactly when the message is a
\* non-array object with a non-empty string id, one of the seven kinds, a
\* finite timestamp, a non-null object payload, a meta that is absent or a
\* non-null non-array object and, for the three intent-bearing kinds, an intent
\* that names a registered intent.
C4_EnvelopeVerdict ==
  call.op = "validateMessageEnvelope" =>
    (ReturnedValid <=> WellFormedEnvelope(call.message))

\* the number of the five field rules the message violates
FieldRulesViolated(message) ==
  (IF IdRuleViolated(message) THEN 1 ELSE 0)
  + (IF KindRuleViolated(message) THEN 1 ELSE 0)
  + (IF TimestampRuleViolated(message) THEN 1 ELSE 0)
  + (IF PayloadRuleViolated(message) THEN 1 ELSE 0)
  + (IF MetaRuleViolated(message) THEN 1 ELSE 0)

\* the errors about the intent: the two kinds of them
IntentStringErrors(errors) ==
  CountStarting(errors, "Field \"intent\" must be a non-empty string for kind ")
UnknownIntentErrors(errors) == CountStarting(errors, "Unknown intent \"")

RegistryHasProperty(name) ==
  name \in RegisteredIntents \/ name \in KeySet(ObjectPrototype)

C6_IndependentRules ==
  call.op = "validateMessageEnvelope" =>
    /\ ret.exc = ""
    /\ IF call.message.v.t = "object"
       THEN /\ Count(ret.errors, IdError)
               = IF IdRuleViolated(call.message) THEN 1 ELSE 0
            /\ Count(ret.errors, KindError)
               = IF KindRuleViolated(call.message) THEN 1 ELSE 0
            /\ Count(ret.errors, TimestampError)
               = IF TimestampRuleViolated(call.message) THEN 1 ELSE 0
            /\ Count(ret.errors, PayloadError)
               = IF PayloadRuleViolated(call.message) THEN 1 ELSE 0
            /\ Count(ret.errors, MetaError)
               = IF MetaRuleViolated(call.message) THEN 1 ELSE 0
       ELSE ret.errors = << <<"Message must be an object">> >> /\ ~ret.valid

\* all five rules violated at once, five errors for them
C6_Witness ==
  /\ call.op = "validateMessageEnvelope"
  /\ call.message.v.t = "object"
  /\ FieldRulesViolated(call.message) = 5
  /\ Len(ret.errors) >= 5

---------------------------------------------------------------------------
(* validateIntentInput, validateIntentOutput *)

\* the shape a registered intent gives to the payload of the call
ShapeOf(intentName, op) ==
  LET intent == intents[IndexOf(intents, intentName)]
  IN [defined |-> TRUE,
      entries |-> IF op \in {"validateIntentInput", "createIntentRequest"}
                  THEN intent.inputShape ELSE intent.outputShape]

\* C7: with a name that is no intent of the registry the intent validators
\* return valid=false and the one unknown-intent error; with a registered name
\* they return what validateShape returns on that intent's shape.
C7_IntentResolvedFirst ==
  call.op \in {"validateIntentInput", "validateIntentOutput"} =>
    IF call.intentName \in RegisteredIntents
    THEN ret = validateShape(call.payload, ShapeOf(call.intentName, call.op),
                             call.allowExtraKeys)
    ELSE /\ ret.exc = ""
         /\ ~ret.valid
         /\ ret.errors = << <<"Unknown intent \"", call.intentName, "\"">> >>

\* C8: the validators never raise: every call of them returns a result.
C8_ValidatorsReturn ==
  call.op \in {"validatePrimitive", "validateShape", "validateIntentInput",
               "validateIntentOutput", "validateMessageEnvelope"} =>
    ret.exc = ""

---------------------------------------------------------------------------
(* The constructors *)

Constructors ==
  {"createIntentRequest", "createExecutionResult", "createHeartbeat",
   "createErrorMessage"}

KindOf(op) ==
  CASE op = "createIntentRequest" -> INTENT_REQUEST
    [] op = "createExecutionResult" -> EXECUTION_RESULT
    [] op = "createHeartbeat" -> HEARTBEAT
    [] op = "createErrorMessage" -> ERROR

\* C9: an envelope that a constructor returns passes validateMessageEnvelope,
\* is well formed, has the kind of its constructor, the intent intentName for
\* the first two constructors and no intent for the other two; createHeartbeat
\* with a non-empty string id alone returns kind heartbeat, payload {}, no intent.
C9_ReturnedEnvelopeValid ==
  call.op \in Constructors =>
    /\ ret.exc = "" =>
         /\ validateMessageEnvelope(intents, ret.envelope).valid
         /\ WellFormedEnvelope(ret.envelope)
         /\ ret.envelope.kind = Str(KindOf(call.op))
         /\ ret.envelope.intent
            = IF call.op \in {"createIntentRequest", "createExecutionResult"}
              THEN Str(call.intentName) ELSE Absent
    /\ (call.op = "createHeartbeat" /\ NonEmptyString(call.id)
        /\ call.payload.v = Undefined /\ call.meta = Undefined) =>
         /\ ret.exc = ""
         /\ ret.envelope.payload = EmptyObject
         /\ ret.envelope.meta = Absent

\* createHeartbeat("msg-1") returned its envelope
C9_Witness ==
  /\ call.op = "createHeartbeat"
  /\ call.id = Str("msg-1")
  /\ call.payload.v = Undefined
  /\ call.meta = Undefined
  /\ ret.exc = ""
  /\ ret.envelope.kind = Str(HEARTBEAT)

\* C10: createIntentRequest and createExecutionResult raise the shape error,
\* whose message names the intent and joins every field error with "; ",
\* whenever the intent is not registered or the payload is not exactly of the
\* intent's shape, whatever the id and the meta.
C10_ShapeErrorRaised ==
  (call.op \in {"createIntentRequest", "createExecutionResult"}
   /\ (call.intentName \notin RegisteredIntents
       \/ ~ExactlyShaped(call.payload, ShapeOf(call.intentName, call.op).entries))) =>
    /\ ret.exc = "Error"
    /\ Len(ret.message) > 3
    /\ SubSeq(ret.message, 1, 3)
       = <<IF call.op = "createIntentRequest" THEN "Invalid input for intent \""
           ELSE "Invalid output for intent \"",
           call.intentName, "\": ">>
    /\ SubSeq(ret.message, 4, Len(ret.message))
       = Join((IF call.op = "createIntentRequest"
               THEN validateIntentInput(intents, call.intentName, call.payload, FALSE)
               ELSE validateIntentOutput(intents, call.intentName, call.payload, FALSE)
              ).errors, "; ")

\* the payload of the call passed the validation against the intent's shape
PassedShapeValidation ==
  /\ call.op \in {"createIntentRequest", "createExecutionResult"}
  /\ LET shapeValidation ==
           IF call.op = "createIntentRequest"
           THEN validateIntentInput(intents, call.intentName, call.payload, FALSE)
           ELSE validateIntentOutput(intents, call.intentName, call.payload, FALSE)
     IN shapeValidation.exc = "" /\ shapeValidation.valid

MetaAccepted(meta) ==
  ~Truthy(meta) \/ (meta.t = "object" /\ ~IsArray(meta))

---------------------------------------------------------------------------
(* ALNKernel.reason *)


\* C12: reason raises the input error exactly when intentText is not a
\* non-empty string, and then before any other work: the clock is not read and
\* no event, that of the normalized constraints included, reaches the logger.
C12_InputErrorFirst ==
  call.op = "reason" =>
    /\ (/\ ret.exc = "Error"
        /\ ret.message = "ALNKernel.reason: intentText must be a non-empty string.")
       <=> ~NonEmptyString(call.intentText)
    /\ ~NonEmptyString(call.intentText) =>
         /\ ret.clockReads = 0
         /\ ret.logged = << >>

\* reason("") on a kernel with a logger raised the input error
C12_Witness ==
  /\ call.op = "reason"
  /\ call.intentText = Str("")
  /\ call.options.logger = ThrowingLogger
  /\ ret.exc = "Error"
  /\ ret.logged = << >>

\* C13: with an intentText that is a non-empty string reason returns its
\* result and raises nothing, whatever intentType, constraints and context.
C13_ReasonReturns ==
  (call.op = "reason" /\ NonEmptyString(call.intentText)) =>
    /\ ret.exc = ""
    /\ DOMAIN ret = {"exc", "message", "planId", "steps", "transparencyTrail",
                     "logged", "clockReads"}

\* the result of the same call on a kernel with the default logger
QuietResult ==
  reason(ALNKernel([call.options EXCEPT !.logger = Undefined]), intents,
         call.intentText, call.intentType, call.constraints, call.context, call.now)

StepIds == [i \in 1..Len(ret.steps) |-> ret.steps[i].id]

HasStep(id) == \E i \in 1..Len(ret.steps) : ret.steps[i].id = id

StepOrder ==
  <<"analyze-intent", "design-structure", "compliance-alignment", "enforce-integrity",
    "context-alignment", "replication-strategy">>

\* C15: the steps reason returns are a subsequence of analyze-intent,
\* design-structure, compliance-alignment, enforce-integrity, context-alignment,
\* replication-strategy: each id is one of the six, the ids follow that order
\* (so none occurs twice), the four that have no gate are present, and there
\* are four to six steps.
C15_StepOrder ==
  (call.op = "reason" /\ ret.exc = "") =>
    /\ \A i \in 1..Len(StepIds) : \E k \in 1..Len(StepOrder) : StepIds[i] = StepOrder[k]
    /\ \A i, j \in 1..Len(StepIds) :
         i < j => \E k, l \in 1..Len(StepOrder) :
                    k < l /\ StepIds[i] = StepOrder[k] /\ StepIds[j] = StepOrder[l]
    /\ \A id \in {"analyze-intent", "design-structure", "enforce-integrity",
                  "replication-strategy"} : HasStep(id)
    /\ Len(StepIds) \in 4..6

\* a plan with both gated steps
C15_Witness ==
  /\ call.op = "reason"
  /\ ret.exc = ""
  /\ StepIds = StepOrder

\* the number of elements of the array the caller gave under the key, 0 when
\* the caller gave no array
CallerItems(key) ==
  LET index == IndexOf(call.constraints.own, key)
  IN IF index # 0 /\ IsArray(call.constraints.own[index].v)
     THEN call.constraints.own[index].v.n ELSE 0

\* C16: in the plan reason returns, compliance-alignment is present exactly
\* when the normalized jurisdictions or providerPolicies are non-empty, that
\* is when the caller gave a non-empty array for one of them, and
\* context-alignment exactly when the context argument has at least one key
\* of its own, whatever the other gate and the intent text are.
C16_StepGates ==
  (call.op = "reason" /\ ret.exc = "") =>
    /\ HasStep("compliance-alignment")
       <=> (\/ ret.transparencyTrail.constraints.jurisdictions.n > 0
            \/ ret.transparencyTrail.constraints.providerPolicies.n > 0)
    /\ HasStep("compliance-alignment")
       <=> (CallerItems("jurisdictions") > 0 \/ CallerItems("providerPolicies") > 0)
    /\ HasStep("context-alignment")
       <=> (Truthy(call.context.v) /\ Len(call.context.own) > 0)

\* provider policies and the context {} : compliance-alignment only
C16_Witness ==
  /\ call.op = "reason"
  /\ ret.exc = ""
  /\ call.context = EmptyObject
  /\ CallerItems("jurisdictions") = 0
  /\ CallerItems("providerPolicies") = 2
  /\ HasStep("compliance-alignment")
  /\ ~HasStep("context-alignment")

\* the rules of the intent type, in their order: the words and the type
IntentTypeRules ==
  << [words |-> {"workflow", "github"}, type |-> "ci_workflow"],
     [words |-> {"repo", "repository"}, type |-> "repository_plan"],
     [words |-> {"python", "notebook"}, type |-> "python_interop"],
     [words |-> {"policy", "compliance"}, type |-> "policy_plan"] >>

\* the text holds one of the words of rule k, in any case of its letters
RuleMatches(k, text) ==
  \E word \in IntentTypeRules[k].words : Includes(toLowerCase(text), word)

\* the type of the first rule that matches, general_plan when none does
FirstMatchingType(text) ==
  IF \E k \in 1..Len(IntentTypeRules) : RuleMatches(k, text)
  THEN IntentTypeRules[CHOOSE k \in 1..Len(IntentTypeRules) :
                         /\ RuleMatches(k, text)
                         /\ \A j \in 1..(k - 1) : ~RuleMatches(j, text)].type
  ELSE "general_plan"

\* C17: the intent type of a plan is the intentType the caller supplied when
\* it supplied one (a truthy value), else the type of the first rule whose
\* words the text holds, in any case, general_plan when no rule matches; the
\* output of analyze-intent and the trail carry that same type.
C17_IntentTypeResolved ==
  (call.op = "reason" /\ ret.exc = "") =>
    /\ ret.transparencyTrail.intentType
       = IF Truthy(call.intentType) THEN call.intentType
         ELSE Str(FirstMatchingType(call.intentText.s))
    /\ ret.steps[1].id = "analyze-intent"
    /\ ret.steps[1].output.intentType = ret.transparencyTrail.intentType
    /\ (call.intentText = Str("Plan a repository with a GitHub workflow")
        /\ call.intentType = Undefined) =>
         ret.transparencyTrail.intentType = Str("ci_workflow")
    /\ (call.intentText = Str("WORKFLOW") /\ call.intentType = Undefined) =>
         ret.transparencyTrail.intentType = Str("ci_workflow")

\* "Plan a repository with a GitHub workflow", no intentType: a ci_workflow
C17_Witness ==
  /\ call.op = "reason"
  /\ call.intentText = Str("Plan a repository with a GitHub workflow")
  /\ call.intentType = Undefined
  /\ ret.exc = ""
  /\ ret.steps[1].output.intentType = Str("ci_workflow")

\* what the caller gave under the key of the constraints, Absent when the
\* constraints are omitted or null or have no such key
Given(key) ==
  IF Truthy(call.constraints.v) /\ IndexOf(call.constraints.own, key) # 0
  THEN call.constraints.own[IndexOf(call.constraints.own, key)].v
  ELSE Absent

\* C18: the normalized maxReplicationTimeHours is a positive finite number:
\* the caller's value when that is one, else the default of the kernel,
\* whatever options the kernel was constructed with.
C18_PositiveReplicationHours ==
  (call.op = "reason" /\ ret.exc = "") =>
    LET hours == ret.transparencyTrail.constraints.maxReplicationTimeHours
        given == Given("maxReplicationTimeHours")
    IN /\ NumberIsFinite(hours)
       /\ hours.n > 0
       /\ hours = IF NumberIsFinite(given) /\ given.n > 0 THEN given
                  ELSE ALNKernel(call.options).maxReplicationHours

\* C19: the normalized requireCompleteness and forbidPlaceholders are
\* booleans, and each is true when the caller supplied no value for it:
\* constraints omitted or null, the key missing, or the key given as
\* undefined; whatever the other fields are.
C19_BooleanDefaults ==
  (call.op = "reason" /\ ret.exc = "") =>
    \A key \in {"requireCompleteness", "forbidPlaceholders"} :
      LET value == IF key = "requireCompleteness"
                   THEN ret.transparencyTrail.constraints.requireCompleteness
                   ELSE ret.transparencyTrail.constraints.forbidPlaceholders
      IN /\ value \in {Bool(TRUE), Bool(FALSE)}
         /\ Given(key) \in {Absent, Undefined} => value = Bool(TRUE)

\* the planId of a call with the same text at the same clock, on a kernel
\* constructed with the model id given and a logger, with another intentType,
\* null constraints and the context {}
PlanIdWith(modelId) ==
  reason(ALNKernel([call.options EXCEPT !.modelId = modelId, !.logger = Fn]), intents,
         call.intentText, Str("custom_plan"), [v |-> Null, own |-> << >>],
         EmptyObject, call.now).planId

\* C20: the planId is the digest of intentText, timestamp and model id, in
\* that order: at the same clock and with the same text, a kernel of the same
\* model id gives the same planId whatever its logger and the other arguments
\* are, and a kernel of another model id gives another planId.
C20_PlanIdOfTriple ==
  (call.op = "reason" /\ ret.exc = "") =>
    /\ ret.planId = Sha256Hex16(ret.transparencyTrail.intentText \o "::"
                                \o ret.transparencyTrail.createdAt \o "::"
                                \o ret.transparencyTrail.modelId.s)
    /\ ret.transparencyTrail.createdAt = toISOString(call.now)
    /\ \A modelId \in ModelIds :
         (PlanIdWith(modelId) = ret.planId)
         <=> (ALNKernel([call.options EXCEPT !.modelId = modelId]).modelId
              = ALNKernel(call.options).modelId)

\* a plan of a kernel constructed with the model id aln-runtime-v2
C20_Witness ==
  /\ call.op = "reason"
  /\ call.options.modelId = Str("aln-runtime-v2")
  /\ ret.exc = ""
  /\ ret.planId # PlanIdWith(Undefined)
  /\ ret.planId = PlanIdWith(Str("aln-runtime-v2"))

---------------------------------------------------------------------------
(* Shared state *)

---------------------------------------------------------------------------
(* The intents matched by the analyze-intent step *)

\* the matchedALNIntents of the analyze-intent step of the returned plan
MatchedIntents == ret.steps[1].output.matchedALNIntents

\* text mentions word, whatever the case of the letters of text
Mentions(text, word) == Includes(toLowerCase(text), word)

\* one of the four matching rules holds for a registry intent and the text
SomeRuleHolds(intent, text) ==
  \/ Mentions(intent.description, "repository") /\ Mentions(text, "repo")
  \/ Includes(intent.k, "interop_python") /\ Mentions(text, "python")
  \/ Includes(intent.k, "define_virtual_object") /\ Mentions(text, "virtual")
  \/ Mentions(intent.description, "policy") /\ Mentions(text, "policy")

\* C22: the matchedALNIntents of a plan holds the id of a registry intent
\* exactly when one of the four rules holds for that intent and the text; every
\* entry is a registered id, and the entries stand in registry order, none twice
C22_MatchedIntents ==
  (pc = "done" /\ call.op = "kernel.reason" /\ ret.exc = "") =>
    /\ ret.steps[1].id = "analyze-intent"
    /\ \A i \in 1..Len(intents) :
         (\E j \in 1..Len(MatchedIntents) : MatchedIntents[j] = intents[i].k)
         <=> SomeRuleHolds(intents[i], call.intentText.s)
    /\ \A j \in 1..Len(MatchedIntents) :
         \E i \in 1..Len(intents) : MatchedIntents[j] = intents[i].k
    /\ \A j1, j2 \in 1..Len(MatchedIntents) :
         j1 < j2 =>
           \E i1, i2 \in 1..Len(intents) :
             /\ i1 < i2
             /\ MatchedIntents[j1] = intents[i1].k
             /\ MatchedIntents[j2] = intents[i2].k

\* a text in upper case for which the repository rule and the policy rule both
\* hold for the intent the host registered: all four intents are matched, once
C22_Witness ==
  /\ pc = "done"
  /\ call.op = "kernel.reason"
  /\ ret.exc = ""
  /\ call.intentText = Str("A POLICY for the REPO of Python virtual objects")
  /\ Len(intents) = 4
  /\ Mentions(intents[4].description, "repository")
  /\ Mentions(intents[4].description, "policy")
  /\ MatchedIntents = << "aln::define_virtual_object", "aln::plan_repository",
                         "aln::interop_python", "host::repository_policy" >>

---------------------------------------------------------------------------
(* The log events of a call *)

\* the names of the events handed to the logger during the call, in order
LoggedEvents == [i \in 1..Len(ret.logged) |-> ret.logged[i].event]

\* C23: a call of reason that returns a plan has handed exactly four events to
\* the logger before it returned, each once and in this order:
\* aln.constraints.normalized, aln.intents.matched, aln.steps.synthesized,
\* aln.plan.generated; the stepCount of the last and the count of the third
\* are both the number of returned steps.  A call that raises has not reached
\* the last event.
C23_FourLogEvents ==
  (pc = "done" /\ call.op = "reason") =>
    /\ ret.exc = "" =>
         /\ LoggedEvents = << "aln.constraints.normalized", "aln.intents.matched",
                              "aln.steps.synthesized", "aln.plan.generated" >>
         /\ ret.logged[3].payload.count = Len(ret.steps)
         /\ ret.logged[4].payload.stepCount = Len(ret.steps)
    /\ ret.exc # "" => \A i \in 1..Len(ret.logged) :
                         ret.logged[i].event # "aln.plan.generated"

\* a plan of six steps, reported as six by both events, on a kernel whose
\* logger raises on every event
C23_Witness ==
  /\ pc = "done"
  /\ call.op = "reason"
  /\ ret.exc = ""
  /\ call.options.logger = ThrowingLogger
  /\ Len(ret.steps) = 6
  /\ Len(ret.logged) = 4
  /\ ret.logged[3].payload.count = 6
  /\ ret.logged[4].payload.stepCount = 6

---------------------------------------------------------------------------
(* The logger as an observer *)

\* the result of the call on the same kernel with another logger
ResultWith(logger) ==
  reason([kernels[call.kernel] EXCEPT !.logger = logger], intents, call.intentText,
         call.intentType, call.constraints, call.context, call.now)

\* C24: whatever the logger does with the payloads it is handed, the plan is
\* the same: with every other logger the same call returns the same planId,
\* steps and transparency trail, and the constraints of the trail are the
\* normalized constraints as they were when the logger was handed them
C24_LoggerPureObserver ==
  (pc = "done" /\ call.op = "kernel.reason" /\ ret.exc = "") =>
    /\ \A logger \in {Fn, ThrowingLogger, ModifyingLogger} :
         Once(ResultWith(logger), LAMBDA other :
           /\ other.planId = ret.planId
           /\ other.steps = ret.steps
           /\ other.transparencyTrail = ret.transparencyTrail)
    /\ ret.transparencyTrail.constraints = ret.logged[1].payload

====
